---- MODULE Spec2Model ----
(***************************************************************************)
(* A model of the consensus core of Flexible-HBBFT:                        *)
(*   src/consensus/src/aggregator.rs  (Aggregator and its three makers)    *)
(*   src/consensus/src/core.rs        (Core: RBC, PREPARE, ABA, cleanup)   *)
(* Each handler of Core is an operator from a node state (a record holding *)
(* Core's fields) and a message to the node state after the handler has    *)
(* returned, every nested call included.                                   *)
(***************************************************************************)
EXTENDS Integers, FiniteSets, Sequences, TLC

VARIABLES core, aggregator, env

vars == <<core, aggregator, env>>

(***************************************************************************)
(* Program constants (core.rs:28-38).                                      *)
(***************************************************************************)
RBC_ECHO == 0
RBC_READY == 1
PRE_ONE == 0
PRE_TWO == 1
VAL_PHASE == 0
MUX_PHASE == 1
OPT == 1
PES == 0

(***************************************************************************)
(* Bounds of the model.                                                    *)
(***************************************************************************)
\* the most entries the stand-alone aggregator of SpecAgg holds at once
MaxEntries == 1
\* the most times one message is recorded as sent by a node
MaxSend == 2
\* the last round of an ABA instance whose messages the network carries
MaxRound == 0

(***************************************************************************)
(* The committee: four members of stake 1, a member's PublicKey being its  *)
(* committee id.                                                           *)
(***************************************************************************)
Nodes == 0 .. 3

size == Cardinality(Nodes)

stake(author) == IF author \in Nodes THEN 1 ELSE 0

total_votes == size

\* f = floor((N-1)/3); quorum_threshold is 2f+1 and random_coin_threshold f+1
quorum_threshold == 2 * ((total_votes - 1) \div 3) + 1

random_coin_threshold == ((total_votes - 1) \div 3) + 1

\* capacity of the commit ring (commitor::MAX_BLOCK_BUFFER)
MAX_BLOCK_BUFFER == 1000

(***************************************************************************)
(* HashMap / HashSet helpers: a map is a function whose DOMAIN is the set  *)
(* of keys present.                                                        *)
(***************************************************************************)
EmptyMap == [k \in {} |-> 0]

Has(m, k) == k \in DOMAIN m

Get(m, k, d) == IF k \in DOMAIN m THEN m[k] ELSE d

Put(m, k, v) == [x \in (DOMAIN m) \cup {k} |-> IF x = k THEN v ELSE m[x]]

Restrict(m, K) == [x \in K |-> m[x]]

None == [some |-> FALSE]

Some(v) == [some |-> TRUE, v |-> v]

(***************************************************************************)
(* aggregator.rs                                                           *)
(***************************************************************************)
Aggregator_new ==
    [ share_coin_aggregators   |-> EmptyMap,
      echo_vote_aggregators    |-> EmptyMap,
      ready_vote_aggregators   |-> EmptyMap,
      prepare_vote_aggregators |-> EmptyMap ]

RBCProofMaker_new == [weight |-> 0, votes |-> {}, used |-> {}]

PrepareMaker_new == [optnum |-> 0, pesnum |-> 0, used |-> {}]

RandomCoinMaker_new == [weight |-> 0, shares |-> {}, used |-> {}]

\* RBCProof::new(epoch, height, votes, tag)
RBCProof(epoch, height, votes, tag) ==
    [epoch |-> epoch, height |-> height, votes |-> votes, tag |-> tag]

\* mutant of RBCProofMaker_append: the threshold test is >= instead of ==
RBCProofMaker_append_ge(mk, epoch, height, author, tag) ==
    IF author \in mk.used
    THEN [maker |-> mk, err |-> TRUE, ret |-> None]
    ELSE LET m2 == [ weight |-> mk.weight + stake(author),
                     votes  |-> mk.votes \cup {author},
                     used   |-> mk.used \cup {author} ]
         IN  [ maker |-> m2, err |-> FALSE,
               ret |-> IF m2.weight >= quorum_threshold
                          \/ (tag = RBC_READY /\ m2.weight = random_coin_threshold)
                       THEN Some(RBCProof(epoch, height, m2.votes, tag))
                       ELSE None ]

\* RBCProofMaker::append without the ensure! on used: a repeated author is
\* counted again
RBCProofMaker_append_reuse(mk, epoch, height, author, tag) ==
    LET m2 == [ weight |-> mk.weight + stake(author),
                votes  |-> mk.votes \cup {author},
                used   |-> mk.used \cup {author} ]
    IN  [ maker |-> m2, err |-> FALSE,
          ret |-> IF m2.weight = quorum_threshold
                     \/ (tag = RBC_READY /\ m2.weight = random_coin_threshold)
                  THEN Some(RBCProof(epoch, height, m2.votes, tag))
                  ELSE None ]

\* RBCProofMaker::append: the maker after the call, whether it returned Err
\* (AuthorityReuseinRBCVote), and the Option<RBCProof> it returned.
\* votes is the Vec of (author, signature) pairs; only its length and its
\* authors are ever read, so it is kept as the set of its authors.
RBCProofMaker_append(mk, epoch, height, author, tag) ==
    IF author \in mk.used
    THEN [maker |-> mk, err |-> TRUE, ret |-> None]
    ELSE LET m2 == [ weight |-> mk.weight + stake(author),
                     votes  |-> mk.votes \cup {author},
                     used   |-> mk.used \cup {author} ]
         IN  [ maker |-> m2, err |-> FALSE,
               ret |-> IF m2.weight = quorum_threshold
                          \/ (tag = RBC_READY /\ m2.weight = random_coin_threshold)
                       THEN Some(RBCProof(epoch, height, m2.votes, tag))
                       ELSE None ]

\* mutant of PrepareMaker_append: PRE_TWO classifies by optnum as PRE_ONE does
PrepareMaker_append_swapped(mk, prepare) ==
    IF prepare.author \in mk.used
    THEN [maker |-> mk, err |-> TRUE, ret |-> None]
    ELSE LET m2 == [ optnum |-> IF prepare.val = OPT
                                THEN mk.optnum + stake(prepare.author)
                                ELSE mk.optnum,
                     pesnum |-> IF prepare.val = OPT
                                THEN mk.pesnum
                                ELSE mk.pesnum + stake(prepare.author),
                     used   |-> mk.used \cup {prepare.author} ]
             total == m2.optnum + m2.pesnum
         IN  [ maker |-> m2, err |-> FALSE,
               ret |->
                 IF total = quorum_threshold /\ prepare.phase \in {PRE_ONE, PRE_TWO}
                 THEN IF m2.optnum >= quorum_threshold THEN Some(<<OPT, TRUE>>)
                      ELSE IF m2.optnum > 0 THEN Some(<<OPT, FALSE>>)
                      ELSE Some(<<PES, FALSE>>)
                 ELSE None ]

\* PrepareMaker::append
PrepareMaker_append(mk, prepare) ==
    IF prepare.author \in mk.used
    THEN [maker |-> mk, err |-> TRUE, ret |-> None]
    ELSE LET m2 == [ optnum |-> IF prepare.val = OPT
                                THEN mk.optnum + stake(prepare.author)
                                ELSE mk.optnum,
                     pesnum |-> IF prepare.val = OPT
                                THEN mk.pesnum
                                ELSE mk.pesnum + stake(prepare.author),
                     used   |-> mk.used \cup {prepare.author} ]
             total == m2.optnum + m2.pesnum
         IN  [ maker |-> m2, err |-> FALSE,
               ret |->
                 IF total = quorum_threshold
                 THEN IF prepare.phase = PRE_ONE
                      THEN IF m2.optnum >= quorum_threshold THEN Some(<<OPT, TRUE>>)
                           ELSE IF m2.optnum > 0 THEN Some(<<OPT, FALSE>>)
                           ELSE Some(<<PES, FALSE>>)
                      ELSE IF prepare.phase = PRE_TWO
                      THEN IF m2.pesnum >= quorum_threshold THEN Some(<<PES, TRUE>>)
                           ELSE IF m2.pesnum > 0 THEN Some(<<PES, FALSE>>)
                           ELSE Some(<<OPT, FALSE>>)
                      ELSE None
                 ELSE None ]

\* The common coin of (epoch, height, round): the threshold signature of a
\* round is unique, so every combination of random_coin_threshold valid
\* shares gives the same bit. coins maps each (epoch, height, round) to
\* that bit (be_u64(sig[0..8]) mod 2).
RandomCoinMaker_append(mk, share, coins) ==
    IF share.author \in mk.used
    THEN [maker |-> mk, err |-> TRUE, ret |-> None]
    ELSE LET m2 == [ weight |-> mk.weight + stake(share.author),
                     shares |-> mk.shares \cup {share.author},
                     used   |-> mk.used \cup {share.author} ]
         IN  [ maker |-> m2, err |-> FALSE,
               ret |-> IF m2.weight = random_coin_threshold
                       THEN Some(coins[<<share.epoch, share.height, share.round>>])
                       ELSE None ]

add_rbc_echo_vote(agg, vote) ==
    LET k == <<vote.epoch, vote.height>>
        r == RBCProofMaker_append(Get(agg.echo_vote_aggregators, k, RBCProofMaker_new),
                                  vote.epoch, vote.height, vote.author, RBC_ECHO)
    IN  [ agg |-> [agg EXCEPT !.echo_vote_aggregators = Put(@, k, r.maker)],
          err |-> r.err, ret |-> r.ret ]

add_rbc_ready_vote(agg, vote) ==
    LET k == <<vote.epoch, vote.height>>
        r == RBCProofMaker_append(Get(agg.ready_vote_aggregators, k, RBCProofMaker_new),
                                  vote.epoch, vote.height, vote.author, RBC_READY)
    IN  [ agg |-> [agg EXCEPT !.ready_vote_aggregators = Put(@, k, r.maker)],
          err |-> r.err, ret |-> r.ret ]

add_prepare_vote(agg, prepare) ==
    LET k == <<prepare.epoch, prepare.height, prepare.phase>>
        r == PrepareMaker_append(Get(agg.prepare_vote_aggregators, k, PrepareMaker_new),
                                 prepare)
    IN  [ agg |-> [agg EXCEPT !.prepare_vote_aggregators = Put(@, k, r.maker)],
          err |-> r.err, ret |-> r.ret ]

add_aba_share_coin(agg, share, coins) ==
    LET k == <<share.epoch, share.height, share.round>>
        r == RandomCoinMaker_append(Get(agg.share_coin_aggregators, k, RandomCoinMaker_new),
                                    share, coins)
    IN  [ agg |-> [agg EXCEPT !.share_coin_aggregators = Put(@, k, r.maker)],
          err |-> r.err, ret |-> r.ret ]

\* the retain test, were it to keep the rank of the cleanup itself
Above_or_equal(k, rank) == k[1] * size + k[2] >= rank

\* e * size + h > rank, the retain test of both cleanup functions
Above(k, rank) == k[1] * size + k[2] > rank

Retain(m, rank) == Restrict(m, {k \in DOMAIN m : Above(k, rank)})

Aggregator_cleanup(agg, epoch, height) ==
    LET rank == epoch * size + height
    IN  [ echo_vote_aggregators    |-> Retain(agg.echo_vote_aggregators, rank),
          ready_vote_aggregators   |-> Retain(agg.ready_vote_aggregators, rank),
          prepare_vote_aggregators |-> Retain(agg.prepare_vote_aggregators, rank),
          share_coin_aggregators   |-> Retain(agg.share_coin_aggregators, rank) ]

(***************************************************************************)
(* core.rs: messages.  A digest is the block it hashes; a signature is     *)
(* implied by the author field (only validly signed messages are fed to    *)
(* the handlers, so every verify() call returns Ok).                       *)
(***************************************************************************)
Block(author, epoch, height, payload) ==
    [author |-> author, epoch |-> epoch, height |-> height, payload |-> payload]

EchoVote(author, epoch, height, digest) ==
    [type |-> "RBCEcho", author |-> author, epoch |-> epoch, height |-> height,
     digest |-> digest]

ReadyVote(author, epoch, height, digest) ==
    [type |-> "RBCReady", author |-> author, epoch |-> epoch, height |-> height,
     digest |-> digest]

Prepare(author, epoch, height, phase, val) ==
    [type |-> "Prepare", author |-> author, epoch |-> epoch, height |-> height,
     phase |-> phase, val |-> val]

\* ABAVal::new; phase VAL_PHASE travels as ABAValMsg, MUX_PHASE as ABAMuxMsg
ABAVal(author, epoch, height, round, val, phase) ==
    [type |-> IF phase = VAL_PHASE THEN "ABAVal" ELSE "ABAMux",
     author |-> author, epoch |-> epoch, height |-> height, round |-> round,
     val |-> val, phase |-> phase]

RandomnessShare(epoch, height, round, author) ==
    [type |-> "ABACoinShare", author |-> author, epoch |-> epoch, height |-> height,
     round |-> round]

ABAOutput(author, epoch, height, round, val) ==
    [type |-> "ABAOutput", author |-> author, epoch |-> epoch, height |-> height,
     round |-> round, val |-> val]

RBCValMsg(block) == [type |-> "RBCVal", block |-> block]

LoopBackMsg(block) == [type |-> "LoopBack", block |-> block]

SyncReplyMsg(block) == [type |-> "SyncReply", block |-> block]

SyncRequestMsg(epoch, height, sender) ==
    [type |-> "SyncRequest", epoch |-> epoch, height |-> height, sender |-> sender]

(***************************************************************************)
(* core.rs: the state of one node.  Beside Core's own fields the record    *)
(* holds what the node's collaborators were told (store, commit_buffer,    *)
(* filtered, sync_requests, sent), the Result of the handler (err), and    *)
(* history fields that record what a handler did: decided (the value with  *)
(* which process_aba_output ended an ABA), delivered_by (the caller of the *)
(* process_rbc_output that delivered a block), output_vals (the value each *)
(* recorded ABAOutput author's message carried), cleaned (the highest rank *)
(* cleanup was called with, -1 before the first call).                     *)
(***************************************************************************)
EmptySets == [v \in 0 .. 1 |-> {}]

NoFlags == [v \in 0 .. 1 |-> FALSE]

Core_new(name, fallback, fault, pk_set) ==
    [ name |-> name, epoch |-> 0, height |-> name,
      fallback |-> fallback, fault |-> fault, pk_set |-> pk_set,
      aggregator |-> Aggregator_new,
      buffers |-> EmptyMap, rbc_proofs |-> EmptyMap, rbc_ready |-> {},
      rbc_epoch_outputs |-> EmptyMap, prepare_flags |-> {},
      aba_values |-> EmptyMap, aba_values_flag |-> EmptyMap,
      aba_mux_values |-> EmptyMap, aba_mux_flags |-> EmptyMap,
      aba_outputs |-> EmptyMap, aba_ends |-> EmptyMap,
      store |-> EmptyMap, commit_buffer |-> EmptyMap, filtered |-> {},
      sync_requests |-> {}, sent |-> EmptyMap, err |-> FALSE,
      decided |-> EmptyMap, delivered_by |-> EmptyMap, output_vals |-> EmptyMap,
      cause |-> "none", cleaned |-> -1 ]

\* Core::rank
rank(epoch, height) == (epoch * size + height) % MAX_BLOCK_BUFFER

\* Synchronizer::transmit: the message is counted in sent
transmit(s, message) == [s EXCEPT !.sent = Put(@, message, Get(@, message, 0) + 1)]

Fail(s) == [s EXCEPT !.err = TRUE]

\* Core::store_block
store_block(s, block) ==
    [s EXCEPT !.buffers = Put(@, <<block.epoch, block.height>>, TRUE),
              !.store = Put(@, rank(block.epoch, block.height), block)]

\* Commitor::buffer_block and Commitor::filter_block, as calls received
buffer_block(s, block) ==
    [s EXCEPT !.commit_buffer = Put(@, block, Get(@, block, 0) + 1)]

filter_block(s, r) == [s EXCEPT !.filtered = @ \cup {r}]

\* Synchronizer::block_request: the stored block, or None after asking for it
block_request(s, epoch, height) ==
    IF Has(s.store, rank(epoch, height))
    THEN [s |-> s, ret |-> Some(s.store[rank(epoch, height)])]
    ELSE [s |-> [s EXCEPT !.sync_requests = @ \cup {<<epoch, height>>}], ret |-> None]

\* Core::cleanup, were it to purge aba_ends by rank as well
cleanup_purging_ends(s, epoch, height) ==
    LET r == epoch * size + height
    IN  [s EXCEPT !.aggregator = Aggregator_cleanup(@, epoch, height),
                  !.buffers = Retain(@, r),
                  !.rbc_proofs = Retain(@, r),
                  !.rbc_ready = {k \in @ : Above(k, r)},
                  !.aba_values = Retain(@, r),
                  !.aba_mux_values = Retain(@, r),
                  !.aba_values_flag = Retain(@, r),
                  !.aba_mux_flags = Retain(@, r),
                  !.aba_outputs = Retain(@, r),
                  !.aba_ends = Retain(@, r),
                  !.output_vals = Retain(@, r),
                  !.cleaned = IF r > @ THEN r ELSE @]

\* Core::cleanup
cleanup(s, epoch, height) ==
    LET r == epoch * size + height
    IN  [s EXCEPT !.aggregator = Aggregator_cleanup(@, epoch, height),
                  !.buffers = Retain(@, r),
                  !.rbc_proofs = Retain(@, r),
                  !.rbc_ready = {k \in @ : Above(k, r)},
                  !.aba_values = Retain(@, r),
                  !.aba_mux_values = Retain(@, r),
                  !.aba_values_flag = Retain(@, r),
                  !.aba_mux_flags = Retain(@, r),
                  !.aba_outputs = Retain(@, r),
                  !.output_vals = Retain(@, r),
                  !.cleaned = IF r > @ THEN r ELSE @]

(***************************************************************************)
(* The handlers.  A handler calls other handlers, each call with `?`: the  *)
(* first Err ends the whole chain.  Every nested call is either the last   *)
(* statement of its caller or followed only by further calls, so a handler *)
(* is modelled as an operator that does the handler's own statements and   *)
(* returns the state with the calls it makes, in order (Ret); exec runs    *)
(* them depth first, as the call stack of the program does.                *)
(***************************************************************************)
Call(op, args) == [op |-> op, args |-> args]

Ret(s, calls) == [s |-> s, calls |-> calls]

\* Core::handle_sync_request
handle_sync_request(s, epoch, height, sender) ==
    IF Has(s.store, rank(epoch, height))
    THEN Ret(transmit(s, [type |-> "SyncReply", block |-> s.store[rank(epoch, height)],
                          to |-> sender]), <<>>)
    ELSE Ret(s, <<>>)

\* Core::generate_rbc_proposal (the payload of an own block is 0)
generate_rbc_proposal(s) ==
    IF s.height < s.fault THEN Ret(s, <<>>)
    ELSE LET block == Block(s.name, s.epoch, s.height, 0)
         IN  Ret(transmit(s, RBCValMsg(block)), <<Call("handle_rbc_val", <<block>>)>>)

\* Core::handle_rbc_val
handle_rbc_val(s, block) ==
    LET s1 == store_block(s, block)
        vote == EchoVote(s.name, block.epoch, block.height, block)
    IN  Ret(transmit(s1, vote), <<Call("handle_rbc_echo", <<vote>>)>>)

\* Core::handle_rbc_echo
handle_rbc_echo(s, vote) ==
    LET r == add_rbc_echo_vote(s.aggregator, vote)
        s1 == [s EXCEPT !.aggregator = r.agg]
    IN  IF r.err THEN Ret(Fail(s), <<>>)
        ELSE IF r.ret.some
        THEN LET proof == r.ret.v
                 ready == ReadyVote(s.name, vote.epoch, vote.height, vote.digest)
                 s2 == [s1 EXCEPT
                          !.rbc_proofs = Put(@, <<proof.epoch, proof.height, proof.tag>>, proof),
                          !.rbc_ready = @ \cup {<<vote.epoch, vote.height>>}]
             IN  Ret(transmit(s2, ready),
                     << Call("invoke_prepare", <<vote.epoch, vote.height, OPT>>),
                        Call("handle_rbc_ready", <<ready>>) >>)
        ELSE Ret(s1, <<>>)

\* mutant of handle_rbc_ready: the block is delivered at the amplification
\* threshold already
handle_rbc_ready_early(s, vote) ==
    LET r == add_rbc_ready_vote(s.aggregator, vote)
        s1 == [s EXCEPT !.aggregator = r.agg]
    IN  IF r.err THEN Ret(Fail(s), <<>>)
        ELSE IF r.ret.some
        THEN LET proof == r.ret.v
                 s2 == [s1 EXCEPT
                          !.rbc_proofs = Put(@, <<proof.epoch, proof.height, proof.tag>>, proof),
                          !.cause = "ready"]
             IN  Ret(s2, <<Call("process_rbc_output", <<vote.epoch, vote.height>>)>>)
        ELSE Ret(s1, <<>>)

\* Core::handle_rbc_ready
handle_rbc_ready(s, vote) ==
    LET r == add_rbc_ready_vote(s.aggregator, vote)
        s1 == [s EXCEPT !.aggregator = r.agg]
    IN  IF r.err THEN Ret(Fail(s), <<>>)
        ELSE IF r.ret.some
        THEN LET proof == r.ret.v
                 flag == <<vote.epoch, vote.height>> \in s1.rbc_ready
                 s2 == [s1 EXCEPT
                          !.rbc_proofs = Put(@, <<proof.epoch, proof.height, proof.tag>>, proof)]
             IN  IF ~flag /\ Cardinality(proof.votes) = random_coin_threshold
                 THEN LET ready == ReadyVote(s.name, vote.epoch, vote.height, vote.digest)
                          s3 == [s2 EXCEPT !.rbc_ready = @ \cup {<<vote.epoch, vote.height>>}]
                      IN  Ret(transmit(s3, ready),
                              << Call("invoke_prepare", <<vote.epoch, vote.height, OPT>>),
                                 Call("handle_rbc_ready", <<ready>>) >>)
                 ELSE IF Cardinality(proof.votes) = quorum_threshold
                 THEN Ret([s2 EXCEPT !.cause = "ready"],
                          <<Call("process_rbc_output", <<vote.epoch, vote.height>>)>>)
                 ELSE Ret(s2, <<>>)
        ELSE Ret(s1, <<>>)

\* mutant of process_rbc_output: an outputted height is delivered again
process_rbc_output_again(s, epoch, height) ==
    LET outputs == Get(s.rbc_epoch_outputs, epoch, {})
        s1 == [s EXCEPT !.rbc_epoch_outputs = Put(@, epoch, outputs)]
        b == block_request(s1, epoch, height)
    IN  IF b.ret.some
        THEN LET s2 == buffer_block(
                         [b.s EXCEPT
                            !.rbc_epoch_outputs = Put(@, epoch, outputs \cup {height}),
                            !.delivered_by = Put(@, <<epoch, height>>, s.cause)],
                         b.ret.v)
             IN  IF Cardinality(outputs \cup {height}) = quorum_threshold
                 THEN Ret(s2, << Call("rbc_advance", <<epoch + 1>>),
                                 Call("fallback", <<epoch>>) >>)
                 ELSE Ret(s2, <<>>)
        ELSE Ret(b.s, <<>>)

\* Core::process_rbc_output; s.cause names the caller, for delivered_by
process_rbc_output(s, epoch, height) ==
    LET outputs == Get(s.rbc_epoch_outputs, epoch, {})
        s1 == [s EXCEPT !.rbc_epoch_outputs = Put(@, epoch, outputs)]
    IN  IF height \notin outputs
        THEN LET b == block_request(s1, epoch, height)
             IN  IF b.ret.some
                 THEN LET s2 == buffer_block(
                                  [b.s EXCEPT
                                     !.rbc_epoch_outputs = Put(@, epoch, outputs \cup {height}),
                                     !.delivered_by = Put(@, <<epoch, height>>, s.cause)],
                                  b.ret.v)
                      IN  IF Cardinality(outputs \cup {height}) = quorum_threshold
                          THEN Ret(s2, << Call("rbc_advance", <<epoch + 1>>),
                                          Call("fallback", <<epoch>>) >>)
                          ELSE Ret(s2, <<>>)
                 ELSE Ret(b.s, <<>>)
        ELSE Ret(s1, <<>>)

\* Core::fallback, the loop over the heights from `height` on
fallback_from(s, fall_epoch, height) ==
    IF height >= size THEN Ret(s, <<>>)
    ELSE IF <<fall_epoch, height>> \notin s.prepare_flags
    THEN Ret(s, << Call("invoke_prepare", <<fall_epoch, height, PES>>),
                   Call("fallback_from", <<fall_epoch, height + 1>>) >>)
    ELSE Ret(s, <<Call("fallback_from", <<fall_epoch, height + 1>>)>>)

\* Core::fallback
fallback(s, cur_epoch) ==
    IF cur_epoch >= s.fallback
    THEN Ret(s, <<Call("fallback_from", <<cur_epoch - s.fallback, 0>>)>>)
    ELSE Ret(s, <<>>)

\* mutant of rbc_advance: the epoch is set whatever the current epoch
rbc_advance_unguarded(s, epoch) ==
    IF epoch # s.epoch
    THEN Ret([s EXCEPT !.epoch = epoch], <<Call("generate_rbc_proposal", <<>>)>>)
    ELSE Ret(s, <<>>)

\* Core::rbc_advance
rbc_advance(s, epoch) ==
    IF epoch > s.epoch
    THEN Ret([s EXCEPT !.epoch = epoch], <<Call("generate_rbc_proposal", <<>>)>>)
    ELSE Ret(s, <<>>)

\* Core::invoke_prepare
invoke_prepare(s, epoch, height, val) ==
    IF <<epoch, height>> \notin s.prepare_flags
    THEN LET prepare == Prepare(s.name, epoch, height, PRE_ONE, val)
             s1 == [s EXCEPT !.prepare_flags = @ \cup {<<epoch, height>>}]
         IN  Ret(transmit(s1, prepare), <<Call("handle_prepare", <<prepare>>)>>)
    ELSE Ret(s, <<>>)

\* mutant of handle_prepare: the outcomes with flag true are applied to the
\* wrong phase
handle_prepare_swapped(s, prepare) ==
    LET r == add_prepare_vote(s.aggregator, prepare)
        s1 == [s EXCEPT !.aggregator = r.agg]
    IN  IF r.err THEN Ret(Fail(s), <<>>)
        ELSE IF r.ret.some
        THEN LET val == r.ret.v[1]
                 flag == r.ret.v[2]
             IN  IF flag
                 THEN IF prepare.phase = PRE_TWO
                      THEN Ret([s1 EXCEPT !.cause = "prepare"],
                               <<Call("process_rbc_output", <<prepare.epoch, prepare.height>>)>>)
                      ELSE IF prepare.phase = PRE_ONE
                      THEN Ret(filter_block(s1, rank(prepare.epoch, prepare.height)), <<>>)
                      ELSE Ret(s1, <<>>)
                 ELSE IF prepare.phase = PRE_ONE
                      THEN LET pre2 == Prepare(s.name, prepare.epoch, prepare.height,
                                               PRE_TWO, val)
                           IN  Ret(transmit(s1, pre2), <<Call("handle_prepare", <<pre2>>)>>)
                      ELSE IF prepare.phase = PRE_TWO
                      THEN LET aba_val == ABAVal(s.name, prepare.epoch, prepare.height,
                                                 0, val, VAL_PHASE)
                           IN  Ret(transmit(s1, aba_val),
                                   <<Call("handle_aba_val", <<aba_val>>)>>)
                      ELSE Ret(s1, <<>>)
        ELSE Ret(s1, <<>>)

\* Core::handle_prepare
handle_prepare(s, prepare) ==
    LET r == add_prepare_vote(s.aggregator, prepare)
        s1 == [s EXCEPT !.aggregator = r.agg]
    IN  IF r.err THEN Ret(Fail(s), <<>>)
        ELSE IF r.ret.some
        THEN LET val == r.ret.v[1]
                 flag == r.ret.v[2]
             IN  IF flag
                 THEN IF prepare.phase = PRE_ONE
                      THEN Ret([s1 EXCEPT !.cause = "prepare"],
                               <<Call("process_rbc_output", <<prepare.epoch, prepare.height>>)>>)
                      ELSE IF prepare.phase = PRE_TWO
                      THEN Ret(filter_block(s1, rank(prepare.epoch, prepare.height)), <<>>)
                      ELSE Ret(s1, <<>>)
                 ELSE IF prepare.phase = PRE_ONE
                      THEN LET pre2 == Prepare(s.name, prepare.epoch, prepare.height,
                                               PRE_TWO, val)
                           IN  Ret(transmit(s1, pre2), <<Call("handle_prepare", <<pre2>>)>>)
                      ELSE IF prepare.phase = PRE_TWO
                      THEN LET aba_val == ABAVal(s.name, prepare.epoch, prepare.height,
                                                 0, val, VAL_PHASE)
                           IN  Ret(transmit(s1, aba_val),
                                   <<Call("handle_aba_val", <<aba_val>>)>>)
                      ELSE Ret(s1, <<>>)
        ELSE Ret(s1, <<>>)

\* Core::handle_aba_val
handle_aba_val(s, aba_val) ==
    LET k == <<aba_val.epoch, aba_val.height, aba_val.round>>
        v == aba_val.val
        values == Get(s.aba_values, k, EmptySets)
    IN  IF aba_val.author \notin values[v]
        THEN LET ins == [values EXCEPT ![v] = @ \cup {aba_val.author}]
                 echo == Cardinality(ins[v]) = random_coin_threshold
                         /\ s.name \notin ins[v]
                 vals2 == IF echo THEN [ins EXCEPT ![v] = @ \cup {s.name}] ELSE ins
                 nums == IF echo THEN Cardinality(ins[v]) + 1 ELSE Cardinality(ins[v])
                 s1 == IF echo
                       THEN transmit(s, ABAVal(s.name, aba_val.epoch, aba_val.height,
                                               aba_val.round, v, VAL_PHASE))
                       ELSE s
                 s2 == [s1 EXCEPT !.aba_values = Put(@, k, vals2)]
             IN  IF nums = quorum_threshold
                 THEN LET values_flag == Get(s2.aba_values_flag, k, NoFlags)
                          s3 == [s2 EXCEPT !.aba_values_flag =
                                              Put(@, k, [values_flag EXCEPT ![v] = TRUE])]
                      IN  IF ~values_flag[OPT] /\ ~values_flag[PES]
                          THEN LET mux == ABAVal(s.name, aba_val.epoch, aba_val.height,
                                                 aba_val.round, v, MUX_PHASE)
                               IN  Ret(transmit(s3, mux), <<Call("handle_aba_mux", <<mux>>)>>)
                          ELSE Ret(s3, <<>>)
                 ELSE Ret(s2, <<>>)
        ELSE Ret([s EXCEPT !.aba_values = Put(@, k, values)], <<>>)

\* Core::handle_aba_mux
handle_aba_mux(s, aba_mux) ==
    LET k == <<aba_mux.epoch, aba_mux.height, aba_mux.round>>
        v == aba_mux.val
        values == Get(s.aba_mux_values, k, EmptySets)
    IN  IF aba_mux.author \notin values[v]
        THEN LET vals2 == [values EXCEPT ![v] = @ \cup {aba_mux.author}]
                 mux_flags == Get(s.aba_mux_flags, k, NoFlags)
                 s1 == [s EXCEPT !.aba_mux_values = Put(@, k, vals2),
                                 !.aba_mux_flags = Put(@, k, mux_flags)]
             IN  IF ~mux_flags[PES] /\ ~mux_flags[OPT]
                 THEN LET nums_opt == Cardinality(vals2[OPT])
                          nums_pes == Cardinality(vals2[PES])
                          reached == nums_opt + nums_pes >= quorum_threshold
                          value_flags == Get(s1.aba_values_flag, k, NoFlags)
                          flags2 ==
                            IF ~reached THEN mux_flags
                            ELSE IF value_flags[PES] /\ value_flags[OPT]
                            THEN [mux_flags EXCEPT ![OPT] = nums_opt > 0,
                                                   ![PES] = nums_pes > 0]
                            ELSE IF value_flags[OPT]
                            THEN [mux_flags EXCEPT ![OPT] = nums_opt >= quorum_threshold]
                            ELSE [mux_flags EXCEPT ![PES] = nums_pes >= quorum_threshold]
                          s2 == [s1 EXCEPT
                                   !.aba_values_flag =
                                       IF reached THEN Put(@, k, value_flags) ELSE @,
                                   !.aba_mux_flags = Put(@, k, flags2)]
                      IN  IF flags2[PES] \/ flags2[OPT]
                          THEN LET share == RandomnessShare(aba_mux.epoch, aba_mux.height,
                                                            aba_mux.round, s.name)
                               IN  Ret(transmit(s2, share),
                                       <<Call("handle_aba_share", <<share>>)>>)
                          ELSE Ret(s2, <<>>)
                 ELSE Ret(s1, <<>>)
        ELSE Ret([s EXCEPT !.aba_mux_values = Put(@, k, values)], <<>>)

\* mutant of handle_aba_share: the next round always starts with the coin
handle_aba_share_coin_only(s, share) ==
    LET k == <<share.epoch, share.height, share.round>>
        r == add_aba_share_coin(s.aggregator, share, s.pk_set)
        s1 == [s EXCEPT !.aggregator = r.agg]
    IN  IF r.err THEN Ret(Fail(s), <<>>)
        ELSE IF r.ret.some
        THEN LET coin == r.ret.v
                 mux_flags == Get(s1.aba_mux_flags, k, NoFlags)
                 s2 == [s1 EXCEPT !.aba_mux_flags = Put(@, k, mux_flags)]
                 advance == Call("aba_adcance_round",
                                 <<share.epoch, share.height, share.round + 1, coin>>)
             IN  IF mux_flags[coin] /\ ~mux_flags[1 - coin]
                 THEN Ret(s2, << Call("process_aba_output",
                                      <<share.epoch, share.height, share.round, coin>>),
                                 advance >>)
                 ELSE Ret(s2, <<advance>>)
        ELSE Ret(s1, <<>>)

\* Core::handle_aba_share
handle_aba_share(s, share) ==
    LET k == <<share.epoch, share.height, share.round>>
        r == add_aba_share_coin(s.aggregator, share, s.pk_set)
        s1 == [s EXCEPT !.aggregator = r.agg]
    IN  IF r.err THEN Ret(Fail(s), <<>>)
        ELSE IF r.ret.some
        THEN LET coin == r.ret.v
                 mux_flags == Get(s1.aba_mux_flags, k, NoFlags)
                 s2 == [s1 EXCEPT !.aba_mux_flags = Put(@, k, mux_flags)]
                 val == IF ~mux_flags[coin] /\ mux_flags[1 - coin] THEN 1 - coin ELSE coin
                 advance == Call("aba_adcance_round",
                                 <<share.epoch, share.height, share.round + 1, val>>)
             IN  IF mux_flags[coin] /\ ~mux_flags[1 - coin]
                 THEN Ret(s2, << Call("process_aba_output",
                                      <<share.epoch, share.height, share.round, coin>>),
                                 advance >>)
                 ELSE Ret(s2, <<advance>>)
        ELSE Ret(s1, <<>>)

\* Core::handle_aba_output
handle_aba_output(s, output) ==
    LET k == <<output.epoch, output.height, output.round>>
        used == Get(s.aba_outputs, k, {})
        vals == Get(s.output_vals, k, EmptyMap)
    IN  IF output.author \notin used
           /\ Cardinality(used \cup {output.author}) = random_coin_threshold
        THEN LET own == s.name \notin used \cup {output.author}
                 s1 == IF own
                       THEN transmit(s, ABAOutput(s.name, output.epoch, output.height,
                                                  output.round, output.val))
                       ELSE s
                 used2 == IF own THEN used \cup {output.author, s.name}
                                 ELSE used \cup {output.author}
                 vals2 == IF own
                          THEN Put(Put(vals, output.author, output.val), s.name, output.val)
                          ELSE Put(vals, output.author, output.val)
                 s2 == [s1 EXCEPT !.aba_outputs = Put(@, k, used2),
                                  !.output_vals = Put(@, k, vals2)]
             IN  Ret(s2, <<Call("process_aba_output",
                                <<output.epoch, output.height, output.round, output.val>>)>>)
        ELSE Ret([s EXCEPT !.aba_outputs = Put(@, k, used \cup {output.author}),
                           !.output_vals = Put(@, k, IF output.author \in used THEN vals
                                                     ELSE Put(vals, output.author, output.val))],
                 <<>>)

\* mutant of process_aba_output: the node ends the instance without
\* recording its own output
process_aba_output_unrecorded(s, epoch, height, round, val) ==
    IF Get(s.aba_ends, <<epoch, height>>, FALSE)
    THEN Ret(s, <<>>)
    ELSE LET s2 == [s EXCEPT !.aba_ends = Put(@, <<epoch, height>>, TRUE),
                             !.decided = Put(@, <<epoch, height>>, val)]
         IN  IF val = OPT
             THEN Ret([s2 EXCEPT !.cause = "aba"],
                      <<Call("process_rbc_output", <<epoch, height>>)>>)
             ELSE Ret(filter_block(s2, rank(epoch, height)), <<>>)

\* Core::process_aba_output
process_aba_output(s, epoch, height, round, val) ==
    IF Get(s.aba_ends, <<epoch, height>>, FALSE)
    THEN Ret(s, <<>>)
    ELSE LET k == <<epoch, height, round>>
             used == Get(s.aba_outputs, k, {})
             s1 == IF s.name \notin used
                   THEN transmit(s, ABAOutput(s.name, epoch, height, round, val))
                   ELSE s
             s2 == [s1 EXCEPT
                      !.aba_outputs = Put(@, k, used \cup {s.name}),
                      !.output_vals =
                          IF s.name \notin used
                          THEN Put(@, k, Put(Get(@, k, EmptyMap), s.name, val))
                          ELSE @,
                      !.aba_ends = Put(@, <<epoch, height>>, TRUE),
                      !.decided = Put(@, <<epoch, height>>, val)]
         IN  IF val = OPT
             THEN Ret([s2 EXCEPT !.cause = "aba"],
                      <<Call("process_rbc_output", <<epoch, height>>)>>)
             ELSE Ret(filter_block(s2, rank(epoch, height)), <<>>)

\* Core::aba_adcance_round
aba_adcance_round(s, epoch, height, round, val) ==
    IF ~Get(s.aba_ends, <<epoch, height>>, FALSE)
    THEN LET aba_val == ABAVal(s.name, epoch, height, round, val, VAL_PHASE)
             s1 == [s EXCEPT !.aba_ends = Put(@, <<epoch, height>>, FALSE)]
         IN  Ret(transmit(s1, aba_val), <<Call("handle_aba_val", <<aba_val>>)>>)
    ELSE Ret(s, <<>>)

\* Core::handle_sync_reply
handle_sync_reply(s, block) ==
    Ret([store_block(s, block) EXCEPT !.cause = "sync"],
        <<Call("process_rbc_output", <<block.epoch, block.height>>)>>)

\* one call of a handler
call(s, c) ==
    LET a == c.args
    IN  CASE c.op = "handle_rbc_val"        -> handle_rbc_val(s, a[1])
          [] c.op = "handle_rbc_echo"       -> handle_rbc_echo(s, a[1])
          [] c.op = "handle_rbc_ready"      -> handle_rbc_ready(s, a[1])
          [] c.op = "process_rbc_output"    -> process_rbc_output(s, a[1], a[2])
          [] c.op = "fallback"              -> fallback(s, a[1])
          [] c.op = "fallback_from"         -> fallback_from(s, a[1], a[2])
          [] c.op = "rbc_advance"           -> rbc_advance(s, a[1])
          [] c.op = "generate_rbc_proposal" -> generate_rbc_proposal(s)
          [] c.op = "invoke_prepare"        -> invoke_prepare(s, a[1], a[2], a[3])
          [] c.op = "handle_prepare"        -> handle_prepare(s, a[1])
          [] c.op = "handle_aba_val"        -> handle_aba_val(s, a[1])
          [] c.op = "handle_aba_mux"        -> handle_aba_mux(s, a[1])
          [] c.op = "handle_aba_share"      -> handle_aba_share(s, a[1])
          [] c.op = "handle_aba_output"     -> handle_aba_output(s, a[1])
          [] c.op = "process_aba_output"    -> process_aba_output(s, a[1], a[2], a[3], a[4])
          [] c.op = "aba_adcance_round"     -> aba_adcance_round(s, a[1], a[2], a[3], a[4])
          [] c.op = "handle_sync_request"   -> handle_sync_request(s, a[1], a[2], a[3])
          [] c.op = "handle_sync_reply"     -> handle_sync_reply(s, a[1])

\* the pending calls run to the end, depth first; an Err drops them all
RECURSIVE exec(_, _)
propagate(r, rest) == IF r.s.err THEN r.s ELSE exec(r.s, r.calls \o rest)

exec(s, stack) ==
    IF stack = <<>> THEN s ELSE propagate(call(s, Head(stack)), Tail(stack))

\* Core::run without the test of the fault floor in the loop
dispatch_unguarded(s, message) ==
    exec(s, << CASE message.type = "RBCVal"       -> Call("handle_rbc_val", <<message.block>>)
                 [] message.type = "RBCEcho"      -> Call("handle_rbc_echo", <<message>>)
                 [] message.type = "RBCReady"     -> Call("handle_rbc_ready", <<message>>)
                 [] message.type = "ABAVal"       -> Call("handle_aba_val", <<message>>)
                 [] message.type = "ABAMux"       -> Call("handle_aba_mux", <<message>>)
                 [] message.type = "ABACoinShare" -> Call("handle_aba_share", <<message>>)
                 [] message.type = "ABAOutput"    -> Call("handle_aba_output", <<message>>)
                 [] message.type = "Prepare"      -> Call("handle_prepare", <<message>>)
                 [] message.type = "LoopBack"     -> Call("handle_rbc_val", <<message.block>>)
                 [] message.type = "SyncRequest"  ->
                      Call("handle_sync_request",
                           <<message.epoch, message.height, message.sender>>)
                 [] message.type = "SyncReply"    ->
                      Call("handle_sync_reply", <<message.block>>) >>)

\* Core::run, the match on one message of rx_core; the Result is then
\* logged and dropped, so err is left behind only as the record of it
dispatch(s, message) ==
    IF s.height < s.fault THEN s
    ELSE exec(s, << CASE message.type = "RBCVal"       -> Call("handle_rbc_val", <<message.block>>)
                      [] message.type = "RBCEcho"      -> Call("handle_rbc_echo", <<message>>)
                      [] message.type = "RBCReady"     -> Call("handle_rbc_ready", <<message>>)
                      [] message.type = "ABAVal"       -> Call("handle_aba_val", <<message>>)
                      [] message.type = "ABAMux"       -> Call("handle_aba_mux", <<message>>)
                      [] message.type = "ABACoinShare" -> Call("handle_aba_share", <<message>>)
                      [] message.type = "ABAOutput"    -> Call("handle_aba_output", <<message>>)
                      [] message.type = "Prepare"      -> Call("handle_prepare", <<message>>)
                      [] message.type = "LoopBack"     -> Call("handle_rbc_val", <<message.block>>)
                      [] message.type = "SyncRequest"  ->
                           Call("handle_sync_request",
                                <<message.epoch, message.height, message.sender>>)
                      [] message.type = "SyncReply"    ->
                           Call("handle_sync_reply", <<message.block>>) >>)

\* one turn of the loop of Core::run on a message
run_message(s, message) == dispatch([s EXCEPT !.err = FALSE, !.cause = "none"], message)

\* one turn of the loop of Core::run on a commit report
run_commit(s, epoch, height) ==
    cleanup([s EXCEPT !.err = FALSE, !.cause = "none"], epoch, height)

\* Core::run before the loop: the first proposal
run_start(s) == exec(s, <<Call("generate_rbc_proposal", <<>>)>>)

(***************************************************************************)
(* SpecAgg: the Aggregator alone.  Votes of any author, value and phase    *)
(* are added to the entries of (epoch 0, height 0); env records what each  *)
(* call returned: fired counts the Some(..) results of an entry since it   *)
(* was created, last describes the latest call.                            *)
(***************************************************************************)
AggPhases == {PRE_ONE, PRE_TWO}

AggCoinKeys == {<<0, 0, 0>>}

NumEntries(agg) ==
    Cardinality(DOMAIN agg.echo_vote_aggregators)
    + Cardinality(DOMAIN agg.ready_vote_aggregators)
    + Cardinality(DOMAIN agg.prepare_vote_aggregators)
    + Cardinality(DOMAIN agg.share_coin_aggregators)

Count(fired, kind, k, r) ==
    IF r.ret.some THEN Put(fired, <<kind, k>>, Get(fired, <<kind, k>>, 0) + 1) ELSE fired

InitAgg ==
    /\ core = EmptyMap
    /\ aggregator = Aggregator_new
    /\ \E c \in [AggCoinKeys -> {0, 1}] :
         env = [fired |-> EmptyMap, last |-> [kind |-> "none"], coins |-> c]

AggStep(kind, k, r, phase, maker) ==
    /\ NumEntries(r.agg) <= MaxEntries
    /\ aggregator' = r.agg
    /\ env' = [env EXCEPT !.fired = Count(@, kind, k, r),
                          !.last = [kind |-> kind, key |-> k, phase |-> phase,
                                    err |-> r.err, ret |-> r.ret, maker |-> maker]]
    /\ UNCHANGED core

AggEcho ==
    \E a \in Nodes :
      LET vote == EchoVote(a, 0, 0, 0)
          r == add_rbc_echo_vote(aggregator, vote)
      IN  AggStep("echo", <<0, 0>>, r, 0, r.agg.echo_vote_aggregators[<<0, 0>>])

AggReady ==
    \E a \in Nodes :
      LET vote == ReadyVote(a, 0, 0, 0)
          r == add_rbc_ready_vote(aggregator, vote)
      IN  AggStep("ready", <<0, 0>>, r, 0, r.agg.ready_vote_aggregators[<<0, 0>>])

AggPrepare ==
    \E a \in Nodes, phase \in AggPhases, val \in {OPT, PES} :
      LET prepare == Prepare(a, 0, 0, phase, val)
          r == add_prepare_vote(aggregator, prepare)
      IN  AggStep("prepare", <<0, 0, phase>>, r, phase,
                  r.agg.prepare_vote_aggregators[<<0, 0, phase>>])

AggCoin ==
    \E a \in Nodes, k \in AggCoinKeys :
      LET share == RandomnessShare(k[1], k[2], k[3], a)
          r == add_aba_share_coin(aggregator, share, env.coins)
      IN  AggStep("coin", k, r, 0, r.agg.share_coin_aggregators[k])

AggCleanup ==
    /\ NumEntries(aggregator) > 0
    /\ aggregator' = Aggregator_cleanup(aggregator, 0, 0)
    /\ env' = [env EXCEPT !.fired = EmptyMap, !.last = [kind |-> "cleanup"]]
    /\ UNCHANGED core

NextAgg == AggEcho \/ AggReady \/ AggPrepare \/ AggCoin \/ AggCleanup

SpecAgg == InitAgg /\ [][NextAgg]_vars

Fired(kind, k) == Get(env.fired, <<kind, k>>, 0)

\* C7: for one aggregator entry (no cleanup in between) the echo aggregator
\* returns a proof at most once, the prepare aggregator a decision at most
\* once and the coin aggregator a coin at most once, whatever votes follow.
C7_FiresAtMostOnce ==
    /\ \A k \in DOMAIN aggregator.echo_vote_aggregators : Fired("echo", k) <= 1
    /\ \A k \in DOMAIN aggregator.prepare_vote_aggregators : Fired("prepare", k) <= 1
    /\ \A k \in DOMAIN aggregator.share_coin_aggregators : Fired("coin", k) <= 1

\* a prepare entry that fired and then took the votes of every other author
C7_Witness ==
    \E k \in DOMAIN aggregator.prepare_vote_aggregators :
      /\ aggregator.prepare_vote_aggregators[k].used = Nodes
      /\ Fired("prepare", k) = 1

\* The classifier table of the claim, from the OPT and PES stake of the entry
\* after the vote.
C8_Table(phase, opt, pes) ==
    IF phase = PRE_ONE
    THEN IF opt >= quorum_threshold THEN Some(<<OPT, TRUE>>)
         ELSE IF opt > 0 THEN Some(<<OPT, FALSE>>)
         ELSE Some(<<PES, FALSE>>)
    ELSE IF pes >= quorum_threshold THEN Some(<<PES, TRUE>>)
         ELSE IF pes > 0 THEN Some(<<PES, FALSE>>)
         ELSE Some(<<OPT, FALSE>>)

\* C8: the vote that brings OPT + PES stake to exactly quorum_threshold gets
\* the decision of the classifier table for its phase; every other vote
\* (before, after, or rejected) gets no decision.
C8_ClassifierResult ==
    env.last.kind = "prepare" =>
      LET mk == env.last.maker
      IN  env.last.ret =
            IF ~env.last.err /\ mk.optnum + mk.pesnum = quorum_threshold
            THEN C8_Table(env.last.phase, mk.optnum, mk.pesnum)
            ELSE None

\* a PRE_TWO vote that completed a quorum of mixed values
C8_Witness ==
    /\ env.last.kind = "prepare"
    /\ env.last.phase = PRE_TWO
    /\ env.last.maker.optnum = 1
    /\ env.last.maker.pesnum = 2
    /\ env.last.ret = Some(<<PES, FALSE>>)

(***************************************************************************)
(* The node under test and its configuration (Parameters).                 *)
(***************************************************************************)
Self == 1

Fallback == 1

Fault == 0

\* the (epoch, height) instance the inbound messages of the one-node
\* specifications are about: the block of committee member 0 in epoch 0
Keys == {<<0, 0>>}

\* no message is counted as sent more than MaxSend times
Within(s) == \A m \in DOMAIN s.sent : s.sent[m] <= MaxSend

\* The commit buffer reports (epoch, height) once its slot is filled or
\* excluded, in strictly increasing rank (commitor.rs; the report is what
\* rx_commit delivers to Core::run).
Commitor_reports(s, epoch, height) ==
    LET r == epoch * size + height
    IN  /\ r = s.cleaned + 1
        /\ \/ rank(epoch, height) \in s.filtered
           \/ \E b \in DOMAIN s.commit_buffer : rank(b.epoch, b.height) = rank(epoch, height)

\* the node's state after a turn of its loop, kept within the send bound
Turn(n, s2) ==
    /\ Within(s2)
    /\ core' = [core EXCEPT ![n] = s2]
    /\ UNCHANGED <<aggregator, env>>

Receive(n, m) == Turn(n, run_message(core[n], m))

Commit(n, epoch, height) ==
    /\ Commitor_reports(core[n], epoch, height)
    /\ core' = [core EXCEPT ![n] = run_commit(core[n], epoch, height)]
    /\ UNCHANGED <<aggregator, env>>

Started(n) == core[n].sent # EmptyMap

Start(n) ==
    /\ ~Started(n)
    /\ core' = [core EXCEPT ![n] = run_start(core[n])]
    /\ UNCHANGED <<aggregator, env>>

\* the fields of Core and of its collaborators that a handler may change
\* (all but the Result and the history fields)
Protocol(s) ==
    <<s.epoch, s.aggregator, s.buffers, s.rbc_proofs, s.rbc_ready, s.rbc_epoch_outputs,
      s.prepare_flags, s.aba_values, s.aba_values_flag, s.aba_mux_values, s.aba_mux_flags,
      s.aba_outputs, s.aba_ends, s.store, s.commit_buffer, s.filtered>>

(***************************************************************************)
(* Spec: one node (Self) and the delivery of the block of Keys.  The node  *)
(* makes its own proposal, then takes, in any order and any number of      *)
(* times, the block (as VAL, LoopBack or SyncReply), ECHO and READY votes, *)
(* PRE_ONE votes for OPT and ABAOutput messages for OPT of other members,  *)
(* and the commit reports of its commit buffer.                            *)
(***************************************************************************)
InBlocks == {Block(k[2], k[1], k[2], 1) : k \in Keys}

InVal == {RBCValMsg(b) : b \in InBlocks} \cup {LoopBackMsg(b) : b \in InBlocks}

InSyncReply == {SyncReplyMsg(b) : b \in InBlocks}

InEcho == {EchoVote(a, b.epoch, b.height, b) : a \in {0, 2}, b \in InBlocks}

InReady == {ReadyVote(a, b.epoch, b.height, b) : a \in {0, 2}, b \in InBlocks}

InPreOne == {Prepare(a, k[1], k[2], PRE_ONE, OPT) : a \in {0, 2}, k \in Keys}

InOutput == {ABAOutput(a, k[1], k[2], 0, OPT) : a \in {0, 2}, k \in Keys}

NoCoins == [k \in {} |-> 0]

Init ==
    /\ core = [n \in {Self} |-> Core_new(n, Fallback, Fault, NoCoins)]
    /\ aggregator = Aggregator_new
    /\ env = [spec |-> "Spec"]

RecvVal == \E m \in InVal : Receive(Self, m)

RecvSyncReply == \E m \in InSyncReply : Receive(Self, m)

RecvEcho == \E m \in InEcho : Receive(Self, m)

RecvReady == \E m \in InReady : Receive(Self, m)

RecvPreOne == \E m \in InPreOne : Receive(Self, m)

RecvOutput == \E m \in InOutput : Receive(Self, m)

RecvCommit == \E k \in Keys : Commit(Self, k[1], k[2])

Propose == Start(Self)

Next ==
    \/ Propose
    \/ Started(Self) /\ RecvVal
    \/ Started(Self) /\ RecvSyncReply
    \/ Started(Self) /\ RecvEcho
    \/ Started(Self) /\ RecvReady
    \/ Started(Self) /\ RecvPreOne
    \/ Started(Self) /\ RecvOutput
    \/ Started(Self) /\ RecvCommit

Spec == Init /\ [][Next]_vars

\* the inbound consensus messages of the slice
Inbound == InVal \cup InSyncReply \cup InEcho \cup InReady \cup InPreOne \cup InOutput

\* the second processing of m, right after the first, sends nothing and
\* leaves the protocol state as the first left it
Replayed(s, m) == run_message(run_message(s, m), m)

Idempotent(s, m) ==
    /\ Replayed(s, m).sent = run_message(s, m).sent
    /\ Protocol(Replayed(s, m)) = Protocol(run_message(s, m))

\* C5: in every reachable state of the node and for every inbound message,
\* processing the message a second time broadcasts nothing and leaves the
\* node's protocol state unchanged.
C5_Idempotent == Started(Self) => \A m \in Inbound : Idempotent(core[Self], m)

\* the READY proof of (e, h) is in rbc_proofs, with a quorum of votes
HasReadyQuorum(s, e, h) ==
    /\ Has(s.rbc_proofs, <<e, h, RBC_READY>>)
    /\ Cardinality(s.rbc_proofs[<<e, h, RBC_READY>>].votes) >= quorum_threshold

\* C9 as stated: for every epoch e and every height h in rbc_epoch_outputs[e],
\* rbc_proofs holds the (e, h, READY) proof with quorum_threshold votes.
C9_Original ==
    \A e \in DOMAIN core[Self].rbc_epoch_outputs :
        \A h \in core[Self].rbc_epoch_outputs[e] : HasReadyQuorum(core[Self], e, h)

\* (e, h) was delivered by the READY quorum and cleanup has not passed it
ReadyDelivered(s, e, h) ==
    /\ Has(s.delivered_by, <<e, h>>)
    /\ s.delivered_by[<<e, h>>] = "ready"
    /\ rank(e, h) > s.cleaned

\* C9, amended: for every (e, h) that the node delivered through the READY
\* quorum and whose rank cleanup has not yet purged, rbc_proofs holds the
\* (e, h, READY) proof with quorum_threshold votes.
C9_ReadyDeliveredHasProof ==
    \A k \in Keys : ReadyDelivered(core[Self], k[1], k[2])
                    => HasReadyQuorum(core[Self], k[1], k[2])

C9_Witness ==
    \E k \in Keys : /\ ReadyDelivered(core[Self], k[1], k[2])
                    /\ k[2] \in Get(core[Self].rbc_epoch_outputs, k[1], {})
                    /\ HasReadyQuorum(core[Self], k[1], k[2])

(***************************************************************************)
(* SpecPrepare: one node, the PREPARE votes of the three other nodes for   *)
(* one (epoch, height), in any order and any number of times, and the      *)
(* reports of the commitor, which make the node clean up.                  *)
(***************************************************************************)
InPrepare ==
    {Prepare(a, k[1], k[2], phase, PES) : a \in Nodes \ {Self}, k \in Keys, phase \in AggPhases}

InitPrepare ==
    /\ core = [n \in {Self} |-> Core_new(n, Fallback, Fault, NoCoins)]
    /\ aggregator = Aggregator_new
    /\ env = [spec |-> "SpecPrepare"]

RecvPrepare == \E m \in InPrepare : Receive(Self, m)

NextPrepare ==
    \/ Propose
    \/ Started(Self) /\ RecvPrepare
    \/ Started(Self) /\ RecvCommit

SpecPrepare == InitPrepare /\ [][NextPrepare]_vars

\* the number of PREPARE broadcasts of the node for (epoch, height, phase)
PrepareSent(s, epoch, height, phase) ==
    Get(s.sent, Prepare(s.name, epoch, height, phase, OPT), 0)
    + Get(s.sent, Prepare(s.name, epoch, height, phase, PES), 0)

\* C6: over any sequence of inbound messages and cleanups the node
\* broadcasts at most one PREPARE for each (epoch, height, phase).
C6_OnePreparePerPhase ==
    \A k \in Keys : \A phase \in AggPhases :
        PrepareSent(core[Self], k[1], k[2], phase) <= 1

(***************************************************************************)
(* SpecABAOne: one node in one ABA instance.  Nodes 0 and 2 send it VAL    *)
(* and MUX of round 0 with either value and one output each, node 0 sends  *)
(* its coin share, in any order and any number of times; the coin is       *)
(* either value; the commitor reports the rank once it is excluded.        *)
(***************************************************************************)
Senders == {0, 2}

Vals == {OPT, PES}

InABAVal ==
    {ABAVal(a, k[1], k[2], 0, v, VAL_PHASE) : a \in Senders, k \in Keys, v \in Vals}

InABAMux ==
    {ABAVal(a, k[1], k[2], 0, v, MUX_PHASE) : a \in Senders, k \in Keys, v \in Vals}

InShare == {RandomnessShare(k[1], k[2], 0, 0) : k \in Keys}

\* node 0 reports OPT and node 2 reports PES
InABAOutput == {ABAOutput(a, k[1], k[2], 0, IF a = 0 THEN OPT ELSE PES) : a \in Senders, k \in Keys}

\* the coins that the threshold signatures of the rounds reveal
Coins == [{<<k[1], k[2], 0>> : k \in Keys} -> Vals]

InitABAOne ==
    /\ \E coins \in Coins : core = [n \in {Self} |-> Core_new(n, Fallback, Fault, coins)]
    /\ aggregator = Aggregator_new
    /\ env = [spec |-> "SpecABAOne"]

RecvABAVal == \E m \in InABAVal : Receive(Self, m)

RecvABAMux == \E m \in InABAMux : Receive(Self, m)

RecvShare == \E m \in InShare : Receive(Self, m)

RecvABAOutput == \E m \in InABAOutput : Receive(Self, m)

NextABAOne ==
    \/ Propose
    \/ Started(Self) /\ RecvABAVal
    \/ Started(Self) /\ RecvABAMux
    \/ Started(Self) /\ RecvShare
    \/ Started(Self) /\ RecvABAOutput
    \/ Started(Self) /\ RecvCommit

SpecABAOne == InitABAOne /\ [][NextABAOne]_vars

Ended(s, e, h) == Get(s.aba_ends, <<e, h>>, FALSE)

Rounds == {0, 1}

\* the authors of the outputs of round r that the node has recorded
OutputAuthors(s, e, h, r) == Get(s.aba_outputs, <<e, h, r>>, {})

\* the value of the output of author a in round r
OutputVal(s, e, h, r, a) == s.output_vals[<<e, h, r>>][a]

Honest == {0, 1, 2}

Byzantine == 3

\* the nodes that the messages of every kind reach
Prompt == {0, 1}

\* one turn of Core::run for each message of msgs, in order
RECURSIVE run_messages(_, _)
run_messages(s, msgs) ==
    IF msgs = <<>> THEN s ELSE run_messages(run_message(s, Head(msgs)), Tail(msgs))

\* the PRE_TWO votes of the other nodes that make n start ABA with v: no
\* PES vote for OPT, one PES vote for PES
StartVotes(n, k, v) ==
    [i \in 1 .. 3 |-> Prepare((n + i) % size, k[1], k[2], PRE_TWO,
                              IF i = 1 THEN v ELSE OPT)]

\* the messages of the instance that the honest nodes other than n have
\* broadcast, up to round MaxRound
Network(n) ==
    {m \in UNION {DOMAIN core[x].sent : x \in Honest \ {n}} :
        /\ m.type \in {"ABAVal", "ABAMux", "ABACoinShare", "ABAOutput"}
        /\ m.round <= MaxRound}

ByzOutputs == {ABAOutput(Byzantine, k[1], k[2], 0, v) : k \in Keys, v \in Vals}

NetCoins == [{<<k[1], k[2], r>> : k \in Keys, r \in 0 .. MaxRound} -> Vals]

InitABANet ==
    /\ \E coins \in NetCoins : core = [n \in Honest |-> Core_new(n, Fallback, Fault, coins)]
    /\ aggregator = Aggregator_new
    /\ \E v \in Vals : env = [spec |-> "SpecABANet", val |-> v, started |-> {}]

StartABA(n) ==
    /\ n \notin env.started
    /\ \E k \in Keys :
           core' = [core EXCEPT ![n] = run_messages(core[n], StartVotes(n, k, env.val))]
    /\ env' = [env EXCEPT !.started = @ \cup {n}]
    /\ UNCHANGED aggregator

Deliver(n, kind) == \E m \in Network(n) : m.type = kind /\ Receive(n, m)

NextABANet ==
    \/ \E n \in Honest : StartABA(n)
    \/ \E n \in Honest : Deliver(n, "ABAVal")
    \/ \E n \in Prompt : Deliver(n, "ABAMux")
    \/ \E n \in Prompt : Deliver(n, "ABACoinShare")
    \/ \E n \in Prompt : Deliver(n, "ABAOutput")
    \/ \E n \in Prompt : \E m \in ByzOutputs : Receive(n, m)

SpecABANet == InitABANet /\ [][NextABANet]_vars

\* the value the honest node n applied for (e, h), once it has ended
Decided(n, k) == core[n].decided[k]

HasDecided(n, k) == Has(core[n].decided, k)

\* C1: two honest nodes that both end ABA(e, h) apply the same value.
C1_Agreement ==
    \A k \in Keys : \A a, b \in Honest :
        HasDecided(a, k) /\ HasDecided(b, k) => Decided(a, k) = Decided(b, k)

\* C3: every honest node that starts ABA(e, h) starts it with the same
\* value v (env.val); no honest node applies 1 - v.
C3_Validity ==
    \A k \in Keys : \A n \in Honest : HasDecided(n, k) => Decided(n, k) = env.val

(***************************************************************************)
(* SpecABAHeld: the committee in one ABA instance, under an adversary that *)
(* schedules the network and runs node 3.  The honest nodes 0 and 1 start  *)
(* with OPT and node 2 starts with PES; the Byzantine node sends           *)
(* VAL(PES).  The adversary holds back the VAL(OPT) messages to node 0 and *)
(* the VAL(PES) messages to node 1 until no other message is left to       *)
(* process, and then releases them: every message between honest nodes is  *)
(* delivered and processed in the end.                                     *)
(***************************************************************************)
StartVal == [n \in Honest |-> IF n = 2 THEN PES ELSE OPT]

\* the values whose VAL messages to a node the adversary holds back
Late == [n \in Honest |-> IF n = 0 THEN {OPT} ELSE IF n = 1 THEN {PES} ELSE {}]

IsHeld(n, m) == m.type = "ABAVal" /\ m.val \in Late[n]

ByzVals == {ABAVal(Byzantine, k[1], k[2], 0, PES, VAL_PHASE) : k \in Keys}

\* a turn of node n on m leaves the node as it is
NoEffect(n, m) ==
    /\ Protocol(run_message(core[n], m)) = Protocol(core[n])
    /\ run_message(core[n], m).sent = core[n].sent

\* every honest node has started and has processed every message that
\* may reach it, those of the Byzantine node included
Quiet ==
    /\ env.started = Honest
    /\ \A n \in Honest : \A m \in Network(n) \cup ByzVals :
           (IsHeld(n, m) => env.released) => NoEffect(n, m)

InitABAHeld ==
    /\ \E coins \in NetCoins : core = [n \in Honest |-> Core_new(n, Fallback, Fault, coins)]
    /\ aggregator = Aggregator_new
    /\ env = [spec |-> "SpecABAHeld", started |-> {}, released |-> FALSE]

StartHeld(n) ==
    /\ n \notin env.started
    /\ \E k \in Keys :
           core' = [core EXCEPT ![n] = run_messages(core[n], StartVotes(n, k, StartVal[n]))]
    /\ env' = [env EXCEPT !.started = @ \cup {n}]
    /\ UNCHANGED aggregator

DeliverHeld(n) ==
    \E m \in Network(n) : (IsHeld(n, m) => env.released) /\ Receive(n, m)

DeliverByz(n) ==
    \E m \in ByzVals : (IsHeld(n, m) => env.released) /\ Receive(n, m)

Release ==
    /\ ~env.released
    /\ Quiet
    /\ env' = [env EXCEPT !.released = TRUE]
    /\ UNCHANGED <<core, aggregator>>

NextABAHeld ==
    \/ \E n \in Honest : StartHeld(n)
    \/ \E n \in Honest : DeliverHeld(n)
    \/ \E n \in Honest : DeliverByz(n)
    \/ Release

SpecABAHeld == InitABAHeld /\ [][NextABAHeld]_vars

AllEnded == \A n \in Honest : \A k \in Keys : Ended(core[n], k[1], k[2])

\* an honest node has gone on to a round whose messages the network does
\* not carry
PastBound ==
    \E n \in Honest : \E m \in DOMAIN core[n].sent :
        m.type \in {"ABAVal", "ABAMux", "ABACoinShare", "ABAOutput"} /\ m.round > MaxRound

\* C4: when every honest node has started ABA(e, h) and every message
\* between honest nodes has been delivered and processed, so that nothing
\* is left for the fair network to do, every honest node has set
\* aba_ends[(e, h)] (or the instance has gone past the last round modelled).
C4_Totality == (Quiet /\ env.released) => (AllEnded \/ PastBound)

(***************************************************************************)
(* SpecRBCNet: the committee in the RBC instance of the Byzantine node 3,  *)
(* the author of the block of (epoch 0, height 3).  It equivocates: node 0 *)
(* is sent the block of payload 1 and node 1 the block of payload 2, and   *)
(* both are sent its ECHO and READY votes for either.  The ECHO and        *)
(* READY votes of the honest nodes for the instance reach the other honest *)
(* nodes at any time, and again.                                           *)
(***************************************************************************)
ByzBlock(n) == Block(Byzantine, 0, Byzantine, n + 1)

ByzRBC(n) ==
    {RBCValMsg(ByzBlock(n))}
    \cup {EchoVote(Byzantine, 0, Byzantine, ByzBlock(x)) : x \in Prompt}
    \cup {ReadyVote(Byzantine, 0, Byzantine, ByzBlock(x)) : x \in Prompt}

\* the votes for the instance that the honest nodes other than n have
\* broadcast
RBCNetwork(n) ==
    {m \in UNION {DOMAIN core[x].sent : x \in Honest \ {n}} :
        /\ m.type \in {"RBCEcho", "RBCReady"}
        /\ m.epoch = 0 /\ m.height = Byzantine}

InitRBCNet ==
    /\ core = [n \in Honest |-> Core_new(n, Fallback, Fault, NoCoins)]
    /\ aggregator = Aggregator_new
    /\ env = [spec |-> "SpecRBCNet"]

\* nodes 0 and 1 receive the messages in time; those to node 2 are late
NextRBCNet ==
    \/ \E n \in Honest : Start(n)
    \/ \E n \in Prompt : Started(n) /\ \E m \in RBCNetwork(n) : Receive(n, m)
    \/ \E n \in Prompt : Started(n) /\ \E m \in ByzRBC(n) : Receive(n, m)

SpecRBCNet == InitRBCNet /\ [][NextRBCNet]_vars

\* the blocks that node n has delivered (handed to the commitor)
Delivered(n) == DOMAIN core[n].commit_buffer

\* C2: two honest nodes that RBC-deliver (e, h) deliver the same block.
C2_Agreement ==
    \A a, b \in Honest : \A x \in Delivered(a) : \A y \in Delivered(b) :
        x.epoch = y.epoch /\ x.height = y.height => x = y

(***************************************************************************)
(* SpecFlags: one node, the READY votes for the block of Keys (they make   *)
(* the node invoke PREPARE), the ABA messages of round 0 for PES with the  *)
(* coin share and the outputs of SpecABAOne, and the cleanups that follow  *)
(* the end of the instance.                                                *)
(***************************************************************************)
NextFlags ==
    \/ Propose
    \/ Started(Self) /\ RecvReady
    \/ Started(Self) /\ \E m \in InABAVal \cup InABAMux : m.val = PES /\ Receive(Self, m)
    \/ Started(Self) /\ RecvShare
    \/ Started(Self) /\ RecvABAOutput
    \/ Started(Self) /\ RecvCommit

SpecFlags == InitABAOne /\ [][NextFlags]_vars

\* C11 as stated: over message handlers and cleanup calls a flag of
\* aba_values_flag or aba_mux_flags that is true is never false afterwards,
\* prepare_flags never loses a pair and aba_ends[(e,h)] stays true.
C11_Original ==
    [][\A k \in Keys :
          /\ Ended(core[Self], k[1], k[2]) => Ended(core'[Self], k[1], k[2])
          /\ core[Self].prepare_flags \subseteq core'[Self].prepare_flags
          /\ \A r \in Rounds : \A v \in Vals :
                /\ Get(core[Self].aba_values_flag, <<k[1], k[2], r>>, NoFlags)[v]
                     => Get(core'[Self].aba_values_flag, <<k[1], k[2], r>>, NoFlags)[v]
                /\ Get(core[Self].aba_mux_flags, <<k[1], k[2], r>>, NoFlags)[v]
                     => Get(core'[Self].aba_mux_flags, <<k[1], k[2], r>>, NoFlags)[v]]_vars

\* C11, amended: in every step prepare_flags keeps its pairs and aba_ends
\* stays true, and a true flag of aba_values_flag or aba_mux_flags stays
\* true unless the step is a cleanup that purges the rank of its key.
C11_MonotoneUpToCleanup ==
    [][\A k \in Keys :
          /\ Ended(core[Self], k[1], k[2]) => Ended(core'[Self], k[1], k[2])
          /\ core[Self].prepare_flags \subseteq core'[Self].prepare_flags
          /\ \A r \in Rounds : \A v \in Vals :
                \/ /\ core'[Self].cleaned > core[Self].cleaned
                   /\ k[1] * size + k[2] <= core'[Self].cleaned
                \/ /\ Get(core[Self].aba_values_flag, <<k[1], k[2], r>>, NoFlags)[v]
                        => Get(core'[Self].aba_values_flag, <<k[1], k[2], r>>, NoFlags)[v]
                   /\ Get(core[Self].aba_mux_flags, <<k[1], k[2], r>>, NoFlags)[v]
                        => Get(core'[Self].aba_mux_flags, <<k[1], k[2], r>>, NoFlags)[v]]_vars

\* the instance has ended, its rank was purged, and a value flag is set
C11_Witness ==
    \E k \in Keys :
        /\ Ended(core[Self], k[1], k[2])
        /\ core[Self].cleaned >= k[1] * size + k[2]
        /\ core[Self].prepare_flags # {}
        /\ \E v \in Vals : Get(core[Self].aba_values_flag, <<k[1], k[2], 0>>, NoFlags)[v]

\* C12: a cleanup(e, h) with R = e*N+h leaves, in the four aggregator maps
\* and in buffers, rbc_proofs, rbc_ready, aba_values, aba_mux_values,
\* aba_values_flag, aba_mux_flags and aba_outputs, exactly the entries of
\* rank above R, each as it was, and leaves prepare_flags, aba_ends and
\* rbc_epoch_outputs as they were.
C12_CleanupEffect ==
    [][core'[Self].cleaned > core[Self].cleaned =>
          LET s == core[Self]
              t == core'[Self]
              R == t.cleaned
              Purged(old, new) ==
                  /\ DOMAIN new = {k \in DOMAIN old : k[1] * size + k[2] > R}
                  /\ \A k \in DOMAIN new : new[k] = old[k]
          IN  /\ Purged(s.aggregator.echo_vote_aggregators, t.aggregator.echo_vote_aggregators)
              /\ Purged(s.aggregator.ready_vote_aggregators, t.aggregator.ready_vote_aggregators)
              /\ Purged(s.aggregator.prepare_vote_aggregators, t.aggregator.prepare_vote_aggregators)
              /\ Purged(s.aggregator.share_coin_aggregators, t.aggregator.share_coin_aggregators)
              /\ Purged(s.buffers, t.buffers)
              /\ Purged(s.rbc_proofs, t.rbc_proofs)
              /\ t.rbc_ready = {k \in s.rbc_ready : k[1] * size + k[2] > R}
              /\ Purged(s.aba_values, t.aba_values)
              /\ Purged(s.aba_mux_values, t.aba_mux_values)
              /\ Purged(s.aba_values_flag, t.aba_values_flag)
              /\ Purged(s.aba_mux_flags, t.aba_mux_flags)
              /\ Purged(s.aba_outputs, t.aba_outputs)
              /\ t.prepare_flags = s.prepare_flags
              /\ t.aba_ends = s.aba_ends
              /\ t.rbc_epoch_outputs = s.rbc_epoch_outputs]_vars

\* right after the cleanup of rank 0: the entries of (0, 0) are gone, those
\* of the node's own block (0, 1) are kept, and so are the retained fields
C12_Witness ==
    /\ core[Self].cleaned = 0
    /\ \A k \in DOMAIN core[Self].aba_values : k[1] * size + k[2] > 0
    /\ \A k \in DOMAIN core[Self].aggregator.ready_vote_aggregators : k[1] * size + k[2] > 0
    /\ \A k \in DOMAIN core[Self].aggregator.prepare_vote_aggregators : k[1] * size + k[2] > 0
    /\ Has(core[Self].buffers, <<0, Self>>)
    /\ Has(core[Self].aggregator.echo_vote_aggregators, <<0, Self>>)
    /\ <<0, 0>> \in core[Self].prepare_flags
    /\ Ended(core[Self], 0, 0)

\* C13: once cleanup has purged rank R, a protocol message that arrives for
\* a key of rank <= R makes the node broadcast nothing and raises no error.
C13_LateMessagesAreNoops ==
    \A k \in Keys :
        k[1] * size + k[2] <= core[Self].cleaned =>
            \A m \in InVal \cup InEcho \cup InReady \cup InPreOne \cup InOutput :
                /\ run_message(core[Self], m).sent = core[Self].sent
                /\ ~run_message(core[Self], m).err

(***************************************************************************)
(* SpecEpoch: one node over two epochs, configured with either fault       *)
(* floor (0: none; 2: the node, of committee id 1, is below it) and handed *)
(* a store that is empty or holds the block of Keys.  After its proposal   *)
(* the node takes, in any order and any number of times, the blocks of the *)
(* other members for epochs 0 and 1 as SyncReply, the READY votes for the  *)
(* block of Keys, and a SyncRequest of member 0 for that block.            *)
(***************************************************************************)
InitEpoch ==
    /\ \E fault \in {0, 2} : \E store \in {EmptyMap} \cup {Put(EmptyMap, rank(b.epoch, b.height), b) : b \in InBlocks} :
           core = [n \in {Self} |-> [Core_new(n, Fallback, fault, NoCoins) EXCEPT !.store = store]]
    /\ aggregator = Aggregator_new
    /\ env = [spec |-> "SpecEpoch"]

\* generate_rbc_proposal has returned and Core::run is in its loop
NextEpoch ==
    \/ Propose
    \/ /\ Started(Self) \/ core[Self].height < core[Self].fault
       /\ \E e \in {0, 1} : \E h \in Nodes \ {Self} :
             Receive(Self, SyncReplyMsg(Block(h, e, h, 1)))
    \/ /\ Started(Self) \/ core[Self].height < core[Self].fault
       /\ RecvReady
    \/ /\ Started(Self) \/ core[Self].height < core[Self].fault
       /\ \E k \in Keys : Receive(Self, SyncRequestMsg(k[1], k[2], 0))

SpecEpoch == InitEpoch /\ [][NextEpoch]_vars

\* C14: when the node enters epoch c >= w (w the fallback window), it
\* invokes PREPARE(PRE_ONE, PES) for every height h in [0, N) with
\* (c - w, h) not yet in prepare_flags.
C14_FallbackOnEntering ==
    [][core'[Self].epoch > core[Self].epoch /\ core'[Self].epoch >= core[Self].fallback =>
          \A h \in Nodes :
              <<core'[Self].epoch - core[Self].fallback, h>> \notin core[Self].prepare_flags =>
                  /\ <<core'[Self].epoch - core[Self].fallback, h>> \in core'[Self].prepare_flags
                  /\ Has(core'[Self].sent,
                         Prepare(Self, core'[Self].epoch - core[Self].fallback, h, PRE_ONE, PES))]_vars

\* C15: a vote of an author that an echo, ready, prepare or coin entry has
\* already recorded is rejected with an error and leaves the entry (and the
\* rest of the node) as it was, and the node handles the messages that
\* follow as if the vote had not arrived.
C15_DuplicateRejected ==
    LET s == core[Self]
        Rejected(m) ==
            /\ run_message(s, m).err
            /\ Protocol(run_message(s, m)) = Protocol(s)
            /\ run_message(s, m).sent = s.sent
            /\ \A m2 \in InReady \cup InShare :
                   run_message(run_message(s, m), m2) = run_message(s, m2)
    IN  /\ \A k \in DOMAIN s.aggregator.echo_vote_aggregators :
            \A a \in s.aggregator.echo_vote_aggregators[k].used :
                Rejected(EchoVote(a, k[1], k[2], Block(k[2], k[1], k[2], 1)))
        /\ \A k \in DOMAIN s.aggregator.ready_vote_aggregators :
            \A a \in s.aggregator.ready_vote_aggregators[k].used :
                Rejected(ReadyVote(a, k[1], k[2], Block(k[2], k[1], k[2], 1)))
        /\ \A k \in DOMAIN s.aggregator.prepare_vote_aggregators :
            \A a \in s.aggregator.prepare_vote_aggregators[k].used : \A v \in Vals :
                Rejected(Prepare(a, k[1], k[2], k[3], v))
        /\ \A k \in DOMAIN s.aggregator.share_coin_aggregators :
            \A a \in s.aggregator.share_coin_aggregators[k].used :
                Rejected(RandomnessShare(k[1], k[2], k[3], a))

\* the last turn rejected a vote, and all four kinds of entry hold a vote
C15_Witness ==
    /\ core[Self].err
    /\ \E k \in DOMAIN core[Self].aggregator.echo_vote_aggregators :
           core[Self].aggregator.echo_vote_aggregators[k].used # {}
    /\ \E k \in DOMAIN core[Self].aggregator.ready_vote_aggregators :
           Cardinality(core[Self].aggregator.ready_vote_aggregators[k].used) >= 2
    /\ \E k \in DOMAIN core[Self].aggregator.prepare_vote_aggregators :
           core[Self].aggregator.prepare_vote_aggregators[k].used # {}
    /\ \E k \in DOMAIN core[Self].aggregator.share_coin_aggregators :
           core[Self].aggregator.share_coin_aggregators[k].used # {}

\* C16: a node whose committee id is below the fault floor broadcasts no
\* proposal, and no RBC, PREPARE or ABA message changes its protocol state
\* or makes it broadcast; with fault = 0 the node proposes and handles its
\* messages.
C16_FaultyNodeIsInert ==
    LET s == core[Self]
        Messages == InVal \cup InEcho \cup InReady \cup InPrepare \cup InPreOne
                    \cup InABAVal \cup InABAMux \cup InShare \cup InABAOutput
    IN  /\ s.height < s.fault =>
              /\ s.sent = EmptyMap
              /\ run_start(s).sent = EmptyMap
              /\ \A m \in Messages :
                     /\ Protocol(run_message(s, m)) = Protocol(s)
                     /\ run_message(s, m).sent = s.sent
        /\ s.fault = 0 =>
              /\ \E m \in DOMAIN run_start(s).sent : m.type = "RBCVal"
              /\ \A m \in InVal : run_message(s, m).sent # s.sent

\* the node is below the fault floor, and ignores a block that a node
\* without the floor would echo
C16_Witness ==
    /\ core[Self].height < core[Self].fault
    /\ \E m \in InVal :
           /\ run_message(core[Self], m) = [core[Self] EXCEPT !.err = FALSE, !.cause = "none"]
           /\ run_message([core[Self] EXCEPT !.fault = 0], m).sent # core[Self].sent

\* C17: a node below the fault floor that receives SyncRequest(e, h, sender)
\* for a block in its store sends SyncReply(block) to the sender.
C17_FaultyNodeServesSync ==
    \A k \in Keys :
        core[Self].height < core[Self].fault /\ Has(core[Self].store, rank(k[1], k[2])) =>
            \E m \in DOMAIN run_message(core[Self], SyncRequestMsg(k[1], k[2], 0)).sent :
                m.type = "SyncReply" /\ m.to = 0

\* C19: over any sequence of RBCVal and LoopBack messages the node
\* broadcasts at most one ECHO for each (epoch, height).
C19_OneEchoPerBlock ==
    \A m \in DOMAIN core[Self].sent :
        m.type = "RBCEcho" =>
            /\ core[Self].sent[m] <= 1
            /\ \A m2 \in DOMAIN core[Self].sent :
                   m2.type = "RBCEcho" /\ m2.epoch = m.epoch /\ m2.height = m.height => m2 = m

\* C20: the node broadcasts READY for a given (epoch, height) at most once,
\* whether the ECHO quorum or the READY amplification comes first.
C20_OneReadyPerBlock ==
    \A m \in DOMAIN core[Self].sent :
        m.type = "RBCReady" =>
            /\ core[Self].sent[m] <= 1
            /\ \A m2 \in DOMAIN core[Self].sent :
                   m2.type = "RBCReady" /\ m2.epoch = m.epoch /\ m2.height = m.height => m2 = m

(***************************************************************************)
(* SpecFast: the committee in the PREPARE phases and the ABA of the block  *)
(* of node 0, (epoch 0, height 0).  After their proposals nodes 0 and 1    *)
(* invoke PREPARE with OPT (their RBC delivered) and node 2 with PES (its  *)
(* fallback fired), as StartVal says.  Node 0 is reached in time by the    *)
(* PRE_ONE vote of node 1 and by the PRE_ONE(OPT) vote of the Byzantine    *)
(* node; nodes 1 and 2 are reached by the PREPARE votes of every honest    *)
(* node, by the PRE_TWO(PES) vote of the Byzantine node and by the ABA     *)
(* messages of each other and by the VAL and MUX messages of the           *)
(* Byzantine node for PES.                                                 *)
(***************************************************************************)
NextFast ==
    \/ \E n \in Honest : Start(n)
    \/ \E n \in Honest : \E k \in Keys :
          /\ Started(n)
          /\ k \notin core[n].prepare_flags
          /\ Turn(n, exec([core[n] EXCEPT !.err = FALSE, !.cause = "none"],
                          <<Call("invoke_prepare", <<k[1], k[2], StartVal[n]>>)>>))
    \/ \E n \in Honest : \E x \in (IF n = 0 THEN {1} ELSE Honest \ {n}) :
          \E m \in DOMAIN core[x].sent :
              /\ Started(n)
              /\ m.type = "Prepare"
              /\ n = 0 => m.phase = PRE_ONE
              /\ Receive(n, m)
    \/ \E n \in Honest : \E k \in Keys :
          /\ Started(n)
          /\ Receive(n, IF n = 0 THEN Prepare(Byzantine, k[1], k[2], PRE_ONE, OPT)
                                ELSE Prepare(Byzantine, k[1], k[2], PRE_TWO, PES))
    \/ \E n \in Honest \ {0} : Started(n) /\ \E m \in Network(n) : Receive(n, m)
    \/ \E n \in Honest \ {0} : \E k \in Keys : \E phase \in {VAL_PHASE, MUX_PHASE} :
          /\ Started(n)
          /\ Receive(n, ABAVal(Byzantine, k[1], k[2], 0, PES, phase))

SpecFast == InitABAHeld /\ [][NextFast]_vars

\* C18: if an honest node obtained the PRE_ONE outcome (OPT, true) for
\* (e, h) and committed the block, no honest node excludes (e, h), neither
\* by a PRE_TWO outcome (PES, true) nor by an ABA decision PES.
C18_FastCommitNeverExcluded ==
    \A k \in Keys : \A a, b \in Honest :
        Get(core[a].delivered_by, k, "none") = "prepare" =>
            rank(k[1], k[2]) \notin core[b].filtered

\* C21: once aba_ends[(e,h)] is true at the node, an inbound ABAVal,
\* ABAMux, ABACoinShare or ABAOutput message for (e,h) causes no broadcast
\* and no change to the VAL sets, the MUX sets, the value flags, the mux
\* flags, the output authors or the commit buffer (an entry created empty
\* by the lookup is not counted as a change).
C21_EndedIgnoresABA ==
    \A k \in Keys :
        Ended(core[Self], k[1], k[2]) /\ ~core[Self].err =>
            \A m \in InABAVal \cup InABAMux \cup InShare \cup InABAOutput :
                LET t == run_message(core[Self], m)
                IN  /\ t.sent = core[Self].sent
                    /\ t.commit_buffer = core[Self].commit_buffer
                    /\ t.filtered = core[Self].filtered
                    /\ \A r \in Rounds :
                         LET kr == <<k[1], k[2], r>>
                         IN  /\ Get(t.aba_values, kr, EmptySets)
                                  = Get(core[Self].aba_values, kr, EmptySets)
                             /\ Get(t.aba_mux_values, kr, EmptySets)
                                  = Get(core[Self].aba_mux_values, kr, EmptySets)
                             /\ Get(t.aba_values_flag, kr, NoFlags)
                                  = Get(core[Self].aba_values_flag, kr, NoFlags)
                             /\ Get(t.aba_mux_flags, kr, NoFlags)
                                  = Get(core[Self].aba_mux_flags, kr, NoFlags)
                             /\ Get(t.aba_outputs, kr, {})
                                  = Get(core[Self].aba_outputs, kr, {})

\* C22: the node broadcasts at most one ABAOutput for a given (epoch,
\* height), whatever the round and the value: no ABAOutput of the node is
\* sent twice, no two different ABAOutput messages of the node for the same
\* (epoch, height) are sent, and a node that has its own output of round 0
\* broadcasts none when the outputs of round 1 of two other members reach
\* it.
C22_OneOutputPerInstance ==
    \A k \in Keys :
        /\ \A m1, m2 \in {m \in DOMAIN core[Self].sent :
                             m.type = "ABAOutput" /\ m.epoch = k[1] /\ m.height = k[2]} :
               m1 = m2 /\ core[Self].sent[m1] <= 1
        /\ Self \in OutputAuthors(core[Self], k[1], k[2], 0) /\ ~core[Self].err =>
               \A v \in Vals :
                   LET later == <<ABAOutput(0, k[1], k[2], 1, v), ABAOutput(2, k[1], k[2], 1, v)>>
                   IN  ~Has(run_messages(core[Self], later).sent,
                            ABAOutput(Self, k[1], k[2], 1, v))

\* C23: the PREPARE driver.  A PREPARE vote of another member is applied
\* to the node in any reachable state, after up to two further votes of
\* the same phase of the remaining members.  If the aggregator returns
\* nothing, only the aggregator changes.  PRE_ONE (OPT, true): the node
\* does what process_rbc_output(e, h) does, sends no PRE_TWO and excludes
\* nothing.  PRE_ONE (val, false): it broadcasts PRE_TWO with val, once,
\* and its own PRE_TWO vote is in the aggregator.  PRE_TWO (PES, true): it
\* excludes rank(e, h) and sends nothing.  PRE_TWO (val, false): it
\* broadcasts ABAVal(round 0, val, VAL), once, and its own VAL is in
\* aba_values.
C23_PrepareDriver ==
    \A k \in Keys : \A phase \in AggPhases : \A a \in Nodes \ {Self} : \A v \in Vals :
      \A v1, v2 \in Vals : \A n \in 0 .. 2 :
        LET others == Nodes \ {Self, a}
            a1 == CHOOSE x \in others : \A y \in others : x <= y
            a2 == CHOOSE x \in others : \A y \in others : x >= y
            before == SubSeq(<<Prepare(a1, k[1], k[2], phase, v1),
                               Prepare(a2, k[1], k[2], phase, v2)>>, 1, n)
            s == run_messages(core[Self], before)
            m == Prepare(a, k[1], k[2], phase, v)
            r == add_prepare_vote(s.aggregator, m)
            s1 == [s EXCEPT !.aggregator = r.agg, !.err = FALSE, !.cause = "none"]
            t == run_message(s, m)
            New(x) == Get(t.sent, x, 0) - Get(s.sent, x, 0)
            pre2(val) == Prepare(Self, k[1], k[2], PRE_TWO, val)
            aba(val) == ABAVal(Self, k[1], k[2], 0, val, VAL_PHASE)
        IN  ~r.err =>
              IF ~r.ret.some
              THEN Protocol(t) = Protocol(s1) /\ t.sent = s.sent
              ELSE LET val == r.ret.v[1]
                       flag == r.ret.v[2]
                       out == exec(s1, <<Call("process_rbc_output", <<k[1], k[2]>>)>>)
                   IN  /\ (phase = PRE_ONE /\ flag) =>
                            /\ val = OPT
                            /\ Protocol(t) = Protocol(out) /\ t.sent = out.sent
                            /\ \A x \in Vals : New(pre2(x)) = 0
                            /\ t.filtered = s.filtered
                       /\ (phase = PRE_ONE /\ ~flag) =>
                            /\ New(pre2(val)) = 1 /\ New(pre2(1 - val)) = 0
                            /\ Self \in t.aggregator.prepare_vote_aggregators[
                                           <<k[1], k[2], PRE_TWO>>].used
                            /\ t.rbc_epoch_outputs = s.rbc_epoch_outputs
                       /\ (phase = PRE_TWO /\ flag) =>
                            /\ val = PES
                            /\ t.filtered = s.filtered \cup {rank(k[1], k[2])}
                            /\ t.sent = s.sent
                            /\ t.rbc_epoch_outputs = s.rbc_epoch_outputs
                       /\ (phase = PRE_TWO /\ ~flag) =>
                            /\ New(aba(val)) = 1 /\ New(aba(1 - val)) = 0
                            /\ Self \in Get(t.aba_values, <<k[1], k[2], 0>>, EmptySets)[val]
                            /\ \A x \in Vals : New(pre2(x)) = 0

\* the node has broadcast PRE_TWO after a PRE_ONE outcome (PES, false) and
\* has excluded the block after a PRE_TWO outcome (PES, true)
C23_Witness ==
    \E k \in Keys :
        /\ Has(core[Self].sent, Prepare(Self, k[1], k[2], PRE_TWO, PES))
        /\ rank(k[1], k[2]) \in core[Self].filtered

\* C24: the coin round transition.  A MUX or a coin share of round 0 is
\* applied to the node in any reachable state, with or without the share
\* of node 2 before it; in the turn in which the coin c of the round is
\* obtained: if only mux_flag[c] is set, the instance has ended (with c as
\* the value applied, if it had not ended before) and no VAL of round 1 is
\* broadcast; if only mux_flag[1-c] is set and the instance had not ended,
\* VAL(1-c) of round 1 is broadcast once and VAL(c) is not; otherwise, if
\* the instance had not ended, VAL(c) of round 1 is broadcast once and
\* VAL(1-c) is not; if the instance had ended, no VAL of round 1 is
\* broadcast.
C24_CoinTransition ==
    \A k \in Keys : \A first \in BOOLEAN :
      \A m \in InABAMux \cup {RandomnessShare(k[1], k[2], 0, a) : a \in Senders} :
        LET kr == <<k[1], k[2], 0>>
            s == IF first
                 THEN run_message(core[Self], RandomnessShare(k[1], k[2], 0, 2))
                 ELSE core[Self]
            t == run_message(s, m)
            weight(x) == Get(x.aggregator.share_coin_aggregators, kr, RandomCoinMaker_new).weight
            c == s.pk_set[kr]
            f == Get(t.aba_mux_flags, kr, NoFlags)
            was == Ended(s, k[1], k[2])
            New(v) == Get(t.sent, ABAVal(Self, k[1], k[2], 1, v, VAL_PHASE), 0)
                      - Get(s.sent, ABAVal(Self, k[1], k[2], 1, v, VAL_PHASE), 0)
        IN  (weight(s) < random_coin_threshold /\ weight(t) >= random_coin_threshold) =>
              /\ was => New(c) = 0 /\ New(1 - c) = 0
              /\ (f[c] /\ ~f[1 - c]) =>
                    /\ Ended(t, k[1], k[2])
                    /\ ~was => t.decided[k] = c
                    /\ New(c) = 0 /\ New(1 - c) = 0
              /\ (~f[c] /\ f[1 - c] /\ ~was) => New(1 - c) = 1 /\ New(c) = 0
              /\ (f[c] = f[1 - c] /\ ~was) => New(c) = 1 /\ New(1 - c) = 0

\* the coin of round 0 was obtained while only the mux flag of the other
\* value was set, and the node has started round 1 with that value
C24_Witness ==
    \E k \in Keys :
        LET kr == <<k[1], k[2], 0>>
            c == core[Self].pk_set[kr]
        IN  /\ Get(core[Self].aba_mux_flags, kr, NoFlags)[1 - c]
            /\ ~Get(core[Self].aba_mux_flags, kr, NoFlags)[c]
            /\ Has(core[Self].sent, ABAVal(Self, k[1], k[2], 1, 1 - c, VAL_PHASE))

\* C25: in every reachable state, and after a turn on a MUX message of any
\* other member, aba_mux_flags[(e,h,r)][v] is true only if
\* aba_values_flag[(e,h,r)][v] is true.
C25_MuxFlagImpliesValueFlag ==
    \A k \in Keys : \A r \in Rounds : \A v \in Vals :
        LET kr == <<k[1], k[2], r>>
        IN  /\ Get(core[Self].aba_mux_flags, kr, NoFlags)[v]
                 => Get(core[Self].aba_values_flag, kr, NoFlags)[v]
            /\ \A a \in Nodes \ {Self} : \A w \in Vals :
                 LET t == run_message(core[Self], ABAVal(a, k[1], k[2], r, w, MUX_PHASE))
                 IN  Get(t.aba_mux_flags, kr, NoFlags)[v]
                       => Get(t.aba_values_flag, kr, NoFlags)[v]

\* C26: in each ABA round (e,h,r) the node broadcasts at most one MUX
\* message: no MUX of the node is sent twice and no two MUX messages of the
\* node for the same round carry different values.
C26_OneMuxPerRound ==
    \A k \in Keys : \A r \in Rounds :
        \A m1, m2 \in {m \in DOMAIN core[Self].sent :
                          /\ m.type = "ABAMux" /\ m.author = Self
                          /\ m.epoch = k[1] /\ m.height = k[2] /\ m.round = r} :
            m1 = m2 /\ core[Self].sent[m1] <= 1

\* C27: for each ABA round (e,h,r) the node broadcasts its RandomnessShare
\* at most once.
C27_OneSharePerRound ==
    \A k \in Keys : \A r \in Rounds :
        Get(core[Self].sent, RandomnessShare(k[1], k[2], r, Self), 0) <= 1

\* C28: a height h is in rbc_epoch_outputs[e] only if the delivery of
\* (e, h) was made from the READY quorum, from a PRE_ONE outcome
\* (OPT, true) or from an ABA decision OPT.
C28_DeliveryHasCause ==
    \A k \in Keys :
        k[2] \in Get(core[Self].rbc_epoch_outputs, k[1], {}) =>
            Get(core[Self].delivered_by, k, "none") \in {"ready", "prepare", "aba"}

\* C29: re-delivery is a no-op.  Over READY quorums, PRE_ONE outcomes, ABA
\* decisions, SyncReply messages and cleanups the commit buffer is handed
\* at most one block for each (epoch, height), and once; and a further
\* process_rbc_output(e, h) for an (e, h) that is already in
\* rbc_epoch_outputs changes nothing and sends nothing, also when the
\* blocks of heights 2 and 3 have just brought the epoch to
\* quorum_threshold delivered heights.
C29_RedeliveryIsNoop ==
    \A k \in Keys :
        /\ \A b1, b2 \in {b \in DOMAIN core[Self].commit_buffer :
                             b.epoch = k[1] /\ b.height = k[2]} :
               b1 = b2 /\ core[Self].commit_buffer[b1] <= 1
        /\ \A full \in BOOLEAN :
               LET more == <<SyncReplyMsg(Block(2, k[1], 2, 1)),
                             SyncReplyMsg(Block(3, k[1], 3, 1))>>
                   s == IF full THEN run_messages(core[Self], more)
                        ELSE [core[Self] EXCEPT !.err = FALSE, !.cause = "none"]
                   t == exec(s, <<Call("process_rbc_output", <<k[1], k[2]>>)>>)
               IN  k[2] \in Get(s.rbc_epoch_outputs, k[1], {}) =>
                       Protocol(t) = Protocol(s) /\ t.sent = s.sent

\* the block was delivered, cleanup has passed its rank, the block is
\* offered again and the commit buffer has been handed it once
C29_Witness ==
    \E k \in Keys : \E b \in InBlocks :
        /\ k[2] \in Get(core[Self].rbc_epoch_outputs, k[1], {})
        /\ core[Self].cleaned >= rank(k[1], k[2])
        /\ core[Self].cause = "sync"
        /\ Get(core[Self].commit_buffer, b, 0) = 1

\* C30: in every step of the node its epoch does not decrease; it grows
\* only to e + 1 for an epoch e whose set of delivered heights reaches
\* quorum_threshold in that step; and after the step the node has broadcast
\* its own VAL proposal at most once for every epoch value.
C30_EpochAdvance ==
    [][ LET s == core[Self]
            t == core'[Self]
            Heights(x, e) == Cardinality(Get(x.rbc_epoch_outputs, e, {}))
        IN  /\ t.epoch >= s.epoch
            /\ t.epoch > s.epoch =>
                   /\ Heights(t, t.epoch - 1) = quorum_threshold
                   /\ Heights(s, t.epoch - 1) < quorum_threshold
            /\ \A e \in 0 .. 2 :
                   Get(t.sent, RBCValMsg(Block(Self, e, t.height, 0)), 0) <= 1 ]_vars

\* epoch 1 reached its quorum of delivered heights before epoch 0 did: the
\* node is in epoch 2, has proposed for epochs 0 and 2 and not for epoch 1
C30_Witness ==
    /\ core[Self].epoch = 2
    /\ Cardinality(Get(core[Self].rbc_epoch_outputs, 0, {})) = quorum_threshold
    /\ Has(core[Self].sent, RBCValMsg(Block(Self, 0, core[Self].height, 0)))
    /\ Has(core[Self].sent, RBCValMsg(Block(Self, 2, core[Self].height, 0)))
    /\ ~Has(core[Self].sent, RBCValMsg(Block(Self, 1, core[Self].height, 0)))
====
